---- MODULE Spec2Model ----
(***************************************************************************)
(* A model of mmdet/models/anchor_heads/ssd_head.py: the construction of   *)
(* SSDHead (head layout, anchor size derivation, base anchor order) and    *)
(* its training loss (hard negative mining, the non-finite guard, the      *)
(* optional uncertainty balancing).                                        *)
(*                                                                         *)
(* Conventions.  Python lists are sequences, so Python index k is index    *)
(* k + 1 here.  A raised exception is recorded by name in an "error"       *)
(* field, "" meaning that none was raised.  Floating point values are      *)
(* exact rationals: basesize_ratio_range holds multiples of 1/200 (half a  *)
(* percent), a loss is a numerator over num_total_samples, and a learned   *)
(* loss weight is a multiple of ln 2, which makes exp(-w) a power of two.  *)
(***************************************************************************)
EXTENDS Integers, Sequences, FiniteSets, TLC

VARIABLES pc, args, head, batch, ret

vars == <<pc, args, head, batch, ret>>

(***************************************************************************)
(* Bounds of the model.                                                    *)
(***************************************************************************)
MaxLevels == 4
MaxBaseRatio == 8
MaxAnchors == 3
MaxNegPosRatio == 2
MaxTotalSamples == 2
MaxImages == 2
MaxWeight == 1

(***************************************************************************)
(* Python and numpy arithmetic.                                            *)
(***************************************************************************)
\* int(a / b) for b # 0: float division, then truncation towards zero.
TruncDiv(a, b) ==
    LET na == IF a >= 0 THEN a ELSE -a
        nb == IF b >= 0 THEN b ELSE -b
        q == na \div nb
    IN IF (a >= 0) = (b >= 0) THEN q ELSE -q

\* list(range(start, stop, step)) for step # 0.
PyRange(start, stop, step) ==
    LET span == IF step > 0 THEN stop - start ELSE start - stop
        inc == IF step > 0 THEN step ELSE -step
        n == IF span <= 0 THEN 0 ELSE (span + inc - 1) \div inc
    IN [j \in 1..n |-> start + (j - 1) * step]

\* list.insert(0, x)
InsertFront(x, s) == <<x>> \o s

(***************************************************************************)
(* SSDHead.__init__: the per-level heads (lines 36-78).                    *)
(***************************************************************************)
DefaultNumClasses == 81

\* num_anchors, lines 36-40 (the assertion of line 37 is checked in SSDHead).
NumAnchors(a) ==
    IF Len(a.anchor_heights) # 0
    THEN [k \in 1..Len(a.anchor_heights) |-> Len(a.anchor_heights[k])]
    ELSE [k \in 1..Len(a.anchor_ratios) |-> Len(a.anchor_ratios[k]) * 2 + 2]

\* One head of level i with out output channels: a dense 3x3 convolution, or
\* the depthwise stack grouped 3x3, batch norm, activation, pointwise 1x1.
HeadConv(a, i, out) ==
    IF a.depthwise_heads
    THEN [variant |-> "depthwise",
          layers |-> <<[op |-> "Conv2d", cin |-> a.in_channels[i],
                        cout |-> a.in_channels[i], kernel |-> 3,
                        groups |-> a.in_channels[i]],
                       [op |-> "BatchNorm2d", cin |-> a.in_channels[i],
                        cout |-> a.in_channels[i], kernel |-> 0, groups |-> 1],
                       [op |-> a.depthwise_heads_activations,
                        cin |-> a.in_channels[i], cout |-> a.in_channels[i],
                        kernel |-> 0, groups |-> 1],
                       [op |-> "Conv2d", cin |-> a.in_channels[i],
                        cout |-> out, kernel |-> 1, groups |-> 1]>>]
    ELSE [variant |-> "dense",
          layers |-> <<[op |-> "Conv2d", cin |-> a.in_channels[i],
                        cout |-> out, kernel |-> 3, groups |-> 1]>>]

\* The number of channels a head produces: those of its last layer.
OutChannels(conv) == conv.layers[Len(conv.layers)].cout

RegConv(a, num_anchors, i) == HeadConv(a, i, num_anchors[i] * 4)

ClsConv(a, num_anchors, i) == HeadConv(a, i, num_anchors[i] * a.num_classes)

(***************************************************************************)
(* SSDHead.__init__: the explicit width/height path (lines 82-95).         *)
(***************************************************************************)
\* The level whose widths and heights line 85 compares in iteration k: the
\* index is i, left over from the loop of line 43, so it is the last level
\* of in_channels whatever k is.
AssertedLevel(a, k) == Len(a.in_channels)

\* AnchorGenerator(0, [], [], widths=..., heights=...): the widths zipped
\* with the heights, in the given order.
ZipAnchors(widths, heights) ==
    [j \in 1..(IF Len(widths) <= Len(heights) THEN Len(widths)
               ELSE Len(heights)) |->
        [scale |-> 0, ratio |-> <<0, 0>>, w |-> widths[j], h |-> heights[j]]]

\* ctr of lines 87-90 for a scalar stride, in halves: ((stride - 1) / 2.).
Ctr(stride) == <<stride - 1, stride - 1>>

\* The exception iteration k of the loop of line 84 raises, "" for none.
ExplicitLevelError(a, k) ==
    IF Len(a.in_channels) = 0 THEN "UnboundLocalError"
    ELSE IF AssertedLevel(a, k) > Len(a.anchor_widths) THEN "IndexError"
    ELSE IF Len(a.anchor_widths[AssertedLevel(a, k)])
            # Len(a.anchor_heights[AssertedLevel(a, k)])
    THEN "AssertionError"
    ELSE IF k > Len(a.anchor_widths) THEN "IndexError"
    ELSE ""

ExplicitGenerator(a, k) ==
    [base_size |-> 0, scales |-> <<>>, ratios |-> <<>>,
     ctr |-> Ctr(a.anchor_strides[k]),
     base_anchors |-> ZipAnchors(a.anchor_widths[k], a.anchor_heights[k])]

(***************************************************************************)
(* SSDHead.__init__: the ratio-derivation path (lines 97-127).             *)
(***************************************************************************)
\* int(min_ratio * 100), int(max_ratio * 100), lines 98-99.
MinRatio(a) == a.basesize_ratio_range[1] \div 2

MaxRatio(a) == a.basesize_ratio_range[2] \div 2

\* StepResult dividing by num_levels - 1 instead of num_levels - 2.
StepResult_OffByOne(a) ==
    LET span == MaxRatio(a) - MinRatio(a)
        d == Len(a.in_channels) - 1
    IN IF d = 0
       THEN [error |-> IF span = 0 THEN "ValueError" ELSE "OverflowError",
             step |-> 0]
       ELSE IF TruncDiv(span, d) = 0
       THEN [error |-> "ValueError", step |-> 0]
       ELSE [error |-> "", step |-> TruncDiv(span, d)]

\* Lines 100-101 and the step check of line 104: step, or the exception.
\* numpy divides by zero to inf or nan, which int() refuses, and range()
\* refuses a step of zero.
StepResult(a) ==
    LET span == MaxRatio(a) - MinRatio(a)
        d == Len(a.in_channels) - 2
    IN IF d = 0
       THEN [error |-> IF span = 0 THEN "ValueError" ELSE "OverflowError",
             step |-> 0]
       ELSE IF TruncDiv(span, d) = 0
       THEN [error |-> "ValueError", step |-> 0]
       ELSE [error |-> "", step |-> TruncDiv(span, d)]

StepError(a) == StepResult(a).error

Step(a) == StepResult(a).step

\* The values r of the loop of line 104.
RatioSteps(a) == PyRange(MinRatio(a), MaxRatio(a) + 1, Step(a))

\* MinSizes without the entry line 107 prepends.
MinSizes_NoPrepend(a) ==
    [j \in 1..Len(RatioSteps(a)) |->
        TruncDiv(a.input_size * RatioSteps(a)[j], 100)]

\* min_sizes after line 107.
MinSizes(a) ==
    InsertFront(TruncDiv(a.input_size * a.basesize_ratio_range[1], 400),
                [j \in 1..Len(RatioSteps(a)) |->
                    TruncDiv(a.input_size * RatioSteps(a)[j], 100)])

\* MaxSizes with the first level's entry appended instead of prepended.
MaxSizes_Appended(a) ==
    [j \in 1..Len(RatioSteps(a)) |->
        TruncDiv(a.input_size * (RatioSteps(a)[j] + Step(a)), 100)]
    \o <<TruncDiv(a.input_size * a.basesize_ratio_range[1], 200)>>

\* max_sizes after line 108.
MaxSizes(a) ==
    InsertFront(TruncDiv(a.input_size * a.basesize_ratio_range[1], 200),
                [j \in 1..Len(RatioSteps(a)) |->
                    TruncDiv(a.input_size * (RatioSteps(a)[j] + Step(a)), 100)])

\* ratios of lines 117-119, each a pair <<numerator, denominator>>.
RECURSIVE Ratios(_)
Ratios(rs) ==
    IF rs = <<>> THEN <<<<1, 1>>>>
    ELSE Ratios(SubSeq(rs, 1, Len(rs) - 1))
         \o <<<<1, rs[Len(rs)]>>, <<rs[Len(rs)], 1>>>>

\* scales of line 116, each by its square <<numerator, denominator>>.
Scales(min_size, max_size) == <<<<1, 1>>, <<max_size, min_size>>>>

\* AnchorGenerator(base_size, scales, ratios, scale_major=False): one base
\* anchor per (scale, ratio), the ratios varying fastest; scale is the
\* Python index of the scale.
GenBaseAnchors(scales, ratios) ==
    [j \in 1..(Len(scales) * Len(ratios)) |->
        [scale |-> (j - 1) \div Len(ratios),
         ratio |-> ratios[((j - 1) % Len(ratios)) + 1],
         w |-> 0, h |-> 0]]

\* Indices with n appended instead of inserted at position 1.
Indices_Appended(n) == [j \in 1..(n + 1) |-> j - 1]

\* indices of lines 122-123: range(n) with n inserted at position 1.
Indices(n) ==
    [j \in 1..(n + 1) |-> IF j = 1 THEN 0 ELSE IF j = 2 THEN n ELSE j - 2]

\* torch.index_select(base_anchors, 0, indices), lines 124-126.
IndexSelect(base_anchors, indices) ==
    [j \in 1..Len(indices) |-> base_anchors[indices[j] + 1]]

\* The exception iteration k of the loop of line 109 raises, "" for none.
DerivedLevelError(a, k) ==
    IF k > Len(MinSizes(a)) THEN "IndexError"
    ELSE IF MinSizes(a)[k] = 0 THEN "ZeroDivisionError"
    ELSE IF k > Len(a.anchor_ratios) THEN "IndexError"
    ELSE ""

DerivedGenerator(a, k) ==
    LET scales == Scales(MinSizes(a)[k], MaxSizes(a)[k])
        ratios == Ratios(a.anchor_ratios[k])
    IN [base_size |-> MinSizes(a)[k], scales |-> scales, ratios |-> ratios,
        ctr |-> Ctr(a.anchor_strides[k]),
        base_anchors |-> IndexSelect(GenBaseAnchors(scales, ratios),
                                     Indices(Len(ratios)))]

(***************************************************************************)
(* SSDHead.__init__ as a whole (lines 17-138).                             *)
(***************************************************************************)
\* The first exception of a sequence of per-step outcomes, "" for none.
RECURSIVE FirstError(_)
FirstError(errs) ==
    IF errs = <<>> THEN ""
    ELSE IF Head(errs) # "" THEN Head(errs)
    ELSE FirstError(Tail(errs))

\* What the head loop of lines 36-76 raises: the assertion of line 37, or
\* num_anchors[i] read past its end.
HeadsError(a) ==
    IF Len(a.anchor_heights) # 0
       /\ Len(a.anchor_heights) # Len(a.anchor_widths)
    THEN "AssertionError"
    ELSE IF Len(a.in_channels) > Len(NumAnchors(a)) THEN "IndexError"
    ELSE ""

\* What the anchor generator part (lines 80-127) raises.
GeneratorsError(a) ==
    IF Len(a.anchor_heights) # 0
    THEN FirstError([k \in 1..Len(a.anchor_strides) |->
                        ExplicitLevelError(a, k)])
    ELSE IF StepError(a) # "" THEN StepError(a)
    ELSE FirstError([k \in 1..Len(a.anchor_strides) |->
                        DerivedLevelError(a, k)])

\* The constructed object.  error names the exception that ended the
\* construction ("" for none); min_sizes and max_sizes are the locals of
\* lines 102-108 as the derivation left them.
SSDHead(a) ==
    LET err == IF HeadsError(a) # "" THEN HeadsError(a)
               ELSE GeneratorsError(a)
        derived == /\ Len(a.anchor_heights) = 0
                   /\ HeadsError(a) = ""
                   /\ StepError(a) = ""
    IN [error |-> err,
        num_anchors |-> IF err = "" THEN NumAnchors(a) ELSE <<>>,
        reg_convs |-> IF err = ""
                      THEN [i \in 1..Len(a.in_channels) |->
                               RegConv(a, NumAnchors(a), i)]
                      ELSE <<>>,
        cls_convs |-> IF err = ""
                      THEN [i \in 1..Len(a.in_channels) |->
                               ClsConv(a, NumAnchors(a), i)]
                      ELSE <<>>,
        anchor_generators |->
            IF err # "" THEN <<>>
            ELSE IF Len(a.anchor_heights) # 0
            THEN [k \in 1..Len(a.anchor_strides) |-> ExplicitGenerator(a, k)]
            ELSE [k \in 1..Len(a.anchor_strides) |-> DerivedGenerator(a, k)],
        min_sizes |-> IF derived THEN MinSizes(a) ELSE <<>>,
        max_sizes |-> IF derived THEN MaxSizes(a) ELSE <<>>,
        loss_balancing |-> a.loss_balancing,
        loss_weights |-> IF err = "" /\ a.loss_balancing
                         THEN <<0, 0>> ELSE <<>>]

(***************************************************************************)
(* The constructor arguments the model draws.                              *)
(***************************************************************************)
InputSizes == {120, 300}

RatioLists == <<<<>>, <<2>>, <<2, 3>>>>

\* anchor_ratios: every level takes each of the lists in turn.
AnchorRatios ==
    {[k \in 1..MaxLevels |-> RatioLists[((k + o) % Len(RatioLists)) + 1]] :
        o \in 1..Len(RatioLists)}

SizeLists == {<<30>>, <<30, 60>>}

SeqsUpTo(S, n) == UNION {[1..m -> S] : m \in 1..n}

InChannels(n) == [i \in 1..n |-> 256]

AnchorStrides(n) == [k \in 1..n |-> 8 * k]

BaseArgs ==
    [input_size |-> 300, num_classes |-> DefaultNumClasses,
     in_channels |-> InChannels(3), anchor_strides |-> AnchorStrides(3),
     basesize_ratio_range |-> <<20, 180>>,
     anchor_ratios |-> <<<<2>>, <<2, 3>>, <<2>>>>,
     anchor_heights |-> <<>>, anchor_widths |-> <<>>,
     depthwise_heads |-> FALSE, depthwise_heads_activations |-> "relu6",
     loss_balancing |-> FALSE]

DerivedArgs ==
    {[BaseArgs EXCEPT !.input_size = s, !.in_channels = InChannels(n),
                      !.anchor_strides = AnchorStrides(n + d),
                      !.basesize_ratio_range = rng, !.anchor_ratios = ars,
                      !.depthwise_heads = dw] :
        s \in InputSizes, n \in 0..MaxLevels, d \in {0, 1},
        rng \in [1..2 -> 0..MaxBaseRatio],
        ars \in AnchorRatios, dw \in BOOLEAN}

ExplicitArgs ==
    {[BaseArgs EXCEPT !.in_channels = InChannels(n),
                      !.anchor_strides = AnchorStrides(n + d),
                      !.anchor_heights = hs, !.anchor_widths = ws,
                      !.depthwise_heads = dw, !.loss_balancing = lb] :
        n \in 0..MaxLevels, d \in {0, 1},
        hs \in SeqsUpTo(SizeLists, MaxLevels),
        ws \in SeqsUpTo(SizeLists, MaxLevels) \cup {<<>>},
        dw \in BOOLEAN, lb \in BOOLEAN}

NoHead ==
    [error |-> "", num_anchors |-> <<>>, reg_convs |-> <<>>,
     cls_convs |-> <<>>, anchor_generators |-> <<>>, min_sizes |-> <<>>,
     max_sizes |-> <<>>, loss_balancing |-> FALSE, loss_weights |-> <<>>]

NoBatch == [kind |-> "none"]

NoRet == [kind |-> "none"]

(***************************************************************************)
(* Construction: the arguments are drawn, then __init__ runs.              *)
(***************************************************************************)
InitNew ==
    /\ pc = "new"
    /\ args \in DerivedArgs \cup ExplicitArgs
    /\ head = NoHead
    /\ batch = NoBatch
    /\ ret = NoRet

Construct ==
    /\ pc = "new"
    /\ head' = SSDHead(args)
    /\ pc' = IF SSDHead(args).error = "" THEN "built" ELSE "failed"
    /\ UNCHANGED <<args, batch, ret>>

NextInit == Construct

SpecInit == InitNew /\ [][NextInit]_vars

(***************************************************************************)
(* Properties of the construction.                                         *)
(***************************************************************************)
ExplicitPath == Len(args.anchor_heights) # 0

\* The levels that have both a head and an anchor generator.
BuiltLevels == DOMAIN head.anchor_generators \cap DOMAIN head.reg_convs

\* The configuration has widths and heights of different lengths, as a whole
\* or at one of its levels.
MismatchedLengths ==
    \/ Len(args.anchor_heights) # Len(args.anchor_widths)
    \/ \E k \in DOMAIN args.anchor_heights \cap DOMAIN args.anchor_widths :
          Len(args.anchor_widths[k]) # Len(args.anchor_heights[k])

\* C2: after construction every level holds 2*len(anchor_ratios[k]) + 2 base
\* anchors on the ratio-derivation path and len(anchor_heights[k]) on the
\* explicit path, and that number is the num_anchors[k] sizing the level's
\* regressor (4 per anchor) and classifier (num_classes per anchor).
C2_AnchorCounts ==
    pc = "built" =>
        \A k \in BuiltLevels :
            /\ Len(head.anchor_generators[k].base_anchors)
               = IF ExplicitPath THEN Len(args.anchor_heights[k])
                 ELSE 2 * Len(args.anchor_ratios[k]) + 2
            /\ Len(head.anchor_generators[k].base_anchors)
               = head.num_anchors[k]
            /\ OutChannels(head.reg_convs[k]) = 4 * head.num_anchors[k]
            /\ OutChannels(head.cls_convs[k])
               = args.num_classes * head.num_anchors[k]

\* C3: on the explicit path construction fails whenever anchor_heights and
\* anchor_widths differ in length, as a whole or at any level.
C3_FailsFast ==
    (pc # "new" /\ ExplicitPath /\ MismatchedLengths) => pc = "failed"

\* C4 as stated: in ratio-derivation mode construction fails for every
\* configuration with 0, 1 or 2 levels.
C4_FewLevelsFail ==
    (pc # "new" /\ ~ExplicitPath /\ Len(args.in_channels) < 3)
        => pc = "failed"

\* C4 as amended: in ratio-derivation mode construction fails for every
\* configuration with exactly 2 levels (the division by num_levels - 2).
C4_TwoLevelsFail ==
    (pc # "new" /\ ~ExplicitPath /\ Len(args.in_channels) = 2)
        => /\ pc = "failed"
           /\ head.error \in {"OverflowError", "ValueError"}

C4_Witness ==
    /\ pc = "failed"
    /\ ~ExplicitPath
    /\ Len(args.in_channels) = 2
    /\ Len(args.anchor_strides) = 2
    /\ head.error = "OverflowError"

\* The base anchors of level k are the unit ratio at scale 0, the unit ratio
\* at scale 1, then for each configured ratio r a pair at scale 0: (1/r, r)
\* when inverse_first, (r, 1/r) otherwise.
OrderedAs(k, inverse_first) ==
    LET anchors == head.anchor_generators[k].base_anchors
        rs == args.anchor_ratios[k]
        first(r) == IF inverse_first THEN <<1, r>> ELSE <<r, 1>>
        second(r) == IF inverse_first THEN <<r, 1>> ELSE <<1, r>>
    IN /\ Len(anchors) = 2 * Len(rs) + 2
       /\ anchors[1].scale = 0 /\ anchors[1].ratio = <<1, 1>>
       /\ anchors[2].scale = 1 /\ anchors[2].ratio = <<1, 1>>
       /\ \A j \in 1..Len(rs) :
             /\ anchors[2 * j + 1].scale = 0
             /\ anchors[2 * j + 1].ratio = first(rs[j])
             /\ anchors[2 * j + 2].scale = 0
             /\ anchors[2 * j + 2].ratio = second(rs[j])

\* C8 as stated: on the ratio-derivation path the base anchors of a level are
\* ordered [1 at scale 0, 1 at scale 1, a, 1/a, b, 1/b, ...].
C8_RatioThenInverse ==
    (pc = "built" /\ ~ExplicitPath) =>
        \A k \in DOMAIN head.anchor_generators : OrderedAs(k, FALSE)

\* C8 as amended: the order is [1 at scale 0, 1 at scale 1, 1/a, a, 1/b, b,
\* ...]: each inverse 1/r is immediately followed by r.
C8_InverseThenRatio ==
    (pc = "built" /\ ~ExplicitPath) =>
        \A k \in DOMAIN head.anchor_generators : OrderedAs(k, TRUE)

C8_Witness ==
    /\ pc = "built"
    /\ ~ExplicitPath
    /\ \E k \in DOMAIN head.anchor_generators :
          /\ Len(args.anchor_ratios[k]) = 2
          /\ Len(head.anchor_generators[k].base_anchors) = 6

\* The size derivation ran to its end for a configuration with at least 3
\* levels and min_ratio < max_ratio.
SizesDerived ==
    /\ pc # "new"
    /\ head.min_sizes # <<>>
    /\ Len(args.in_channels) >= 3
    /\ args.input_size >= 1
    /\ args.basesize_ratio_range[1] < args.basesize_ratio_range[2]

\* C9 as stated: min_sizes[k] <= max_sizes[k] at every level, and for
\* consecutive levels max_sizes[k] <= min_sizes[k+1] or max_sizes[k] <
\* max_sizes[k+1].
C9_Monotonic ==
    SizesDerived =>
        /\ \A k \in DOMAIN head.min_sizes :
              head.min_sizes[k] <= head.max_sizes[k]
        /\ \A k \in 1..(Len(head.min_sizes) - 1) :
              \/ head.max_sizes[k] <= head.min_sizes[k + 1]
              \/ head.max_sizes[k] < head.max_sizes[k + 1]

\* C9 as amended: min_sizes[k] <= max_sizes[k] at every level, and for
\* consecutive levels max_sizes[k] <= min_sizes[k+1] or max_sizes[k] <=
\* max_sizes[k+1] (not strictly); from the second level on max_sizes[k] is
\* min_sizes[k+1].
C9_WeaklyMonotonic ==
    SizesDerived =>
        /\ \A k \in DOMAIN head.min_sizes :
              head.min_sizes[k] <= head.max_sizes[k]
        /\ \A k \in 1..(Len(head.min_sizes) - 1) :
              \/ head.max_sizes[k] <= head.min_sizes[k + 1]
              \/ head.max_sizes[k] <= head.max_sizes[k + 1]
        /\ \A k \in 2..(Len(head.min_sizes) - 1) :
              head.max_sizes[k] = head.min_sizes[k + 1]

C9_Witness ==
    /\ SizesDerived
    /\ pc = "built"
    /\ head.max_sizes[1] > head.min_sizes[2]
    /\ head.max_sizes[1] = head.max_sizes[2]

\* basesize_ratio_range holds whole percentages, max_ratio - min_ratio of
\* them at least num_levels - 2, for num_levels = len(in_channels) =
\* len(anchor_strides) >= 3 in ratio-derivation mode.
WholePercentages ==
    /\ ~ExplicitPath
    /\ Len(args.in_channels) >= 3
    /\ Len(args.anchor_strides) = Len(args.in_channels)
    /\ args.basesize_ratio_range[1] % 2 = 0
    /\ args.basesize_ratio_range[2] % 2 = 0
    /\ MaxRatio(args) - MinRatio(args) >= Len(args.in_channels) - 2

\* C10: under WholePercentages the derivation emits at least num_levels
\* (min_size, max_size) pairs, one prepended and one per value of r, so no
\* level reads past the end of the lists; a constructed head takes level k's
\* base size and scales from pair k and uses no pair beyond the first
\* num_levels.
C10_EnoughSizes ==
    (pc # "new" /\ WholePercentages) =>
        /\ Len(head.min_sizes) >= Len(args.in_channels)
        /\ Len(head.max_sizes) = Len(head.min_sizes)
        /\ Len(head.min_sizes)
           = 2 + (MaxRatio(args) - MinRatio(args)) \div Step(args)
        /\ head.error \in {"", "ZeroDivisionError"}
        /\ pc = "built" =>
              /\ Len(head.anchor_generators) = Len(args.in_channels)
              /\ \A k \in DOMAIN head.anchor_generators :
                    /\ head.anchor_generators[k].base_size = head.min_sizes[k]
                    /\ head.anchor_generators[k].scales
                       = <<<<1, 1>>, <<head.max_sizes[k], head.min_sizes[k]>>>>

C10_Witness ==
    /\ pc = "built"
    /\ WholePercentages
    /\ Len(head.min_sizes) > Len(args.in_channels)

(***************************************************************************)
(* Loss values.  A loss is num / den + lg * (ln 2) / 2; a loss weight w is *)
(* the multiple w * ln 2, so that exp(-w) is 2 ^ (-w).                     *)
(***************************************************************************)
Scalar(num, den) == [num |-> num, den |-> den, lg |-> 0]

RECURSIVE SumSeq(_)
SumSeq(s) == IF s = <<>> THEN 0 ELSE Head(s) + SumSeq(Tail(s))

RECURSIVE Pow2(_)
Pow2(n) == IF n <= 0 THEN 1 ELSE 2 * Pow2(n - 1)

\* sum(_loss.mean() for _loss in losses): every per-image loss is a single
\* value over the same num_total_samples.
SumLosses(losses) ==
    [num |-> SumSeq([i \in 1..Len(losses) |-> losses[i].num]),
     den |-> losses[1].den,
     lg |-> SumSeq([i \in 1..Len(losses) |-> losses[i].lg])]

\* torch.exp(-w) * loss + 0.5 * w, lines 256-257 and 260-261.
BalanceTerm(loss, w) ==
    [num |-> loss.num * Pow2(-w), den |-> loss.den * Pow2(w),
     lg |-> loss.lg + w]

(***************************************************************************)
(* SSDHead.loss_single (lines 154-179).                                    *)
(***************************************************************************)
\* LossClsAll without the label weights.
LossClsAll_Unweighted(img) == [j \in 1..Len(img.labels) |-> img.ce[j]]

\* F.cross_entropy(cls_score, labels, reduction='none') * label_weights,
\* lines 156-157; img.ce is the cross entropy of each anchor.
LossClsAll(img) ==
    [j \in 1..Len(img.labels) |-> img.ce[j] * img.label_weights[j]]

\* (labels > 0).nonzero().view(-1), line 158.
PosInds(img) ==
    SelectSeq([j \in 1..Len(img.labels) |-> j], LAMBDA j : img.labels[j] > 0)

\* (labels == 0).nonzero().view(-1), line 159.
NegInds(img) ==
    SelectSeq([j \in 1..Len(img.labels) |-> j], LAMBDA j : img.labels[j] = 0)

\* NumNegSamples without the cap of lines 163-164.
NumNegSamples_Uncapped(neg_pos_ratio, num_pos_samples, num_negatives) ==
    neg_pos_ratio * num_pos_samples

\* num_neg_samples, lines 162-164.
NumNegSamples(neg_pos_ratio, num_pos_samples, num_negatives) ==
    IF neg_pos_ratio * num_pos_samples > num_negatives
    THEN num_negatives
    ELSE neg_pos_ratio * num_pos_samples

\* The positions torch.topk(k) selects in vals, largest value first.
RECURSIVE TopKFrom(_, _, _)
TopKFrom(vals, remaining, k) ==
    IF k = 0 THEN <<>>
    ELSE LET best == CHOOSE i \in remaining :
                         \A j \in remaining :
                             \/ vals[j] < vals[i]
                             \/ (vals[j] = vals[i] /\ i <= j)
         IN <<best>> \o TopKFrom(vals, remaining \ {best}, k - 1)

TopK(vals, k) == TopKFrom(vals, DOMAIN vals, k)

\* smooth_l1_loss(..., avg_factor=num_total_samples), lines 173-178; img.l1
\* is the weighted sum of the elementwise smooth-L1 terms.
SmoothL1Loss(img, num_total_samples) == Scalar(img.l1, num_total_samples)

\* The exception loss_single raises, "" for none: topk out of range, then
\* the assertions of lines 166-168.
LossSingleError(img, num_total_samples, neg_pos_ratio) ==
    LET num_pos == Len(PosInds(img))
        num_neg == NumNegSamples(neg_pos_ratio, num_pos, Len(NegInds(img)))
    IN IF num_neg < 0 \/ num_neg > Len(NegInds(img)) THEN "RuntimeError"
       ELSE IF ~(num_pos > 0) THEN "AssertionError"
       ELSE IF ~(num_neg > 0) THEN "AssertionError"
       ELSE IF ~(num_total_samples > 0) THEN "AssertionError"
       ELSE ""

\* The call's outcome: the two losses, with the locals num_pos_samples,
\* num_neg_samples and the anchors topk selected.
LossSingle(img, num_total_samples, neg_pos_ratio) ==
    LET all == LossClsAll(img)
        pos == PosInds(img)
        neg == NegInds(img)
        num_neg == NumNegSamples(neg_pos_ratio, Len(pos), Len(neg))
        err == LossSingleError(img, num_total_samples, neg_pos_ratio)
        neg_losses == [j \in 1..Len(neg) |-> all[neg[j]]]
        topk == IF err = "RuntimeError" THEN <<>>
                ELSE TopK(neg_losses, num_neg)
        loss_cls_pos == SumSeq([j \in 1..Len(pos) |-> all[pos[j]]])
        loss_cls_neg == SumSeq([j \in 1..Len(topk) |-> neg_losses[topk[j]]])
    IN [error |-> err,
        num_pos_samples |-> Len(pos),
        num_neg_samples |-> num_neg,
        selected |-> {neg[topk[j]] : j \in 1..Len(topk)},
        loss_cls |-> IF err = ""
                     THEN Scalar(loss_cls_pos + loss_cls_neg,
                                 num_total_samples)
                     ELSE Scalar(0, 0),
        loss_bbox |-> IF err = "" THEN SmoothL1Loss(img, num_total_samples)
                      ELSE Scalar(0, 0)]

(***************************************************************************)
(* SSDHead.loss and SSDHead._balance_losses (lines 181-263).               *)
(***************************************************************************)
\* _balance_losses, lines 254-263, for the head h.
BalanceLosses(h, losses_cls, losses_reg) ==
    <<BalanceTerm(SumLosses(losses_cls), h.loss_weights[1]),
      BalanceTerm(SumLosses(losses_reg), h.loss_weights[2])>>

\* FiniteError checking the classification scores only.
FiniteError_ScoresOnly(b) == IF ~b.cls_finite THEN "AssertionError" ELSE ""

\* What the guard of lines 231-235 raises.
FiniteError(b) ==
    IF ~b.cls_finite THEN "AssertionError"
    ELSE IF ~b.bbox_finite THEN "AssertionError"
    ELSE ""

\* multi_apply(self.loss_single, ...), lines 237-246: one call per image.
PerImage(b) ==
    [i \in 1..Len(b.images) |->
        LossSingle(b.images[i], b.num_total_samples, b.neg_pos_ratio)]

\* loss_cls of the returned dict, lines 248-252.
ReturnedLossCls(h, losses_cls, losses_bbox) ==
    IF h.loss_balancing
    THEN <<BalanceLosses(h, losses_cls, losses_bbox)[1]>>
    ELSE losses_cls

\* loss_bbox of the returned dict, lines 248-252: the balanced regression
\* loss is bound to losses_reg, and the dict is built from losses_bbox.
ReturnedLossBbox(h, losses_cls, losses_bbox) == losses_bbox

\* The outcome of loss(): kind "raise" with the exception, "None", or "dict".
Loss(h, b) ==
    LET raise(e) == [kind |-> "raise", error |-> e, loss_cls |-> <<>>,
                     loss_bbox |-> <<>>]
        per == PerImage(b)
        losses_cls == [i \in 1..Len(per) |-> per[i].loss_cls]
        losses_bbox == [i \in 1..Len(per) |-> per[i].loss_bbox]
    IN IF b.num_featmaps # Len(h.anchor_generators)
       THEN raise("AssertionError")
       ELSE IF b.targets_none
       THEN [kind |-> "None", error |-> "", loss_cls |-> <<>>,
             loss_bbox |-> <<>>]
       ELSE IF FiniteError(b) # "" THEN raise(FiniteError(b))
       ELSE IF FirstError([i \in 1..Len(per) |-> per[i].error]) # ""
       THEN raise(FirstError([i \in 1..Len(per) |-> per[i].error]))
       ELSE [kind |-> "dict", error |-> "",
             loss_cls |-> ReturnedLossCls(h, losses_cls, losses_bbox),
             loss_bbox |-> ReturnedLossBbox(h, losses_cls, losses_bbox)]

(***************************************************************************)
(* The inputs of the loss the model draws.                                 *)
(***************************************************************************)
Labels == {0, 1, 2}

LabelWeights == {0, 1}

CrossEntropies == {1, 2}

\* The targets and per-anchor cross entropies of one image with n anchors.
Images(n) ==
    [labels : [1..n -> Labels], label_weights : [1..n -> LabelWeights],
     ce : [1..n -> CrossEntropies], l1 : {1}]

\* The images of a batch: two anchors each, every anchor counted.
BatchImages ==
    [labels : [1..2 -> {0, 1}], label_weights : {<<1, 1>>},
     ce : {<<2, 1>>}, l1 : {1, 2}]

SingleCalls ==
    [kind : {"loss_single"}, num_featmaps : {3}, targets_none : {FALSE},
     images : UNION {[1..1 -> Images(n)] : n \in 0..MaxAnchors},
     num_total_samples : 0..MaxTotalSamples,
     neg_pos_ratio : 1..MaxNegPosRatio,
     cls_finite : {TRUE}, bbox_finite : {TRUE}]

LossCalls ==
    [kind : {"loss"}, num_featmaps : {2, 3}, targets_none : {FALSE},
     images : UNION {[1..m -> BatchImages] : m \in 1..MaxImages},
     num_total_samples : {0, 1}, neg_pos_ratio : {MaxNegPosRatio},
     cls_finite : BOOLEAN, bbox_finite : BOOLEAN]
    \cup
    [kind : {"loss"}, num_featmaps : {2, 3}, targets_none : {TRUE},
     images : {<<>>}, num_total_samples : {0},
     neg_pos_ratio : {MaxNegPosRatio},
     cls_finite : BOOLEAN, bbox_finite : BOOLEAN]

(***************************************************************************)
(* One call of loss_single on a constructed head.                          *)
(***************************************************************************)
InitSingle ==
    /\ pc = "built"
    /\ args = BaseArgs
    /\ head = SSDHead(BaseArgs)
    /\ batch \in SingleCalls
    /\ ret = NoRet

LossSingleCall ==
    /\ pc = "built"
    /\ batch.kind = "loss_single"
    /\ LET r == LossSingle(batch.images[1], batch.num_total_samples,
                           batch.neg_pos_ratio)
       IN /\ ret' = [kind |-> IF r.error = "" THEN "tuple" ELSE "raise",
                     error |-> r.error,
                     loss_cls |-> <<r.loss_cls>>,
                     loss_bbox |-> <<r.loss_bbox>>,
                     num_pos_samples |-> r.num_pos_samples,
                     num_neg_samples |-> r.num_neg_samples,
                     selected |-> r.selected]
          /\ pc' = IF r.error = "" THEN "returned" ELSE "raised"
    /\ UNCHANGED <<args, head, batch>>

NextSingle == LossSingleCall

SpecLossSingle == InitSingle /\ [][NextSingle]_vars

(***************************************************************************)
(* Training: loss() per batch, the optimizer between batches.              *)
(***************************************************************************)
InitTrain ==
    /\ pc = "built"
    /\ args \in {[BaseArgs EXCEPT !.loss_balancing = lb] : lb \in BOOLEAN}
    /\ head = SSDHead(args)
    /\ batch = NoBatch
    /\ ret = NoRet

LossCall ==
    /\ pc = "built"
    /\ \E b \in LossCalls :
          /\ batch' = b
          /\ ret' = Loss(head, b)
          /\ pc' = CASE Loss(head, b).kind = "dict" -> "returned"
                     [] Loss(head, b).kind = "None" -> "skipped"
                     [] OTHER -> "raised"
    /\ UNCHANGED <<args, head>>

\* The optimizer consumes the returned losses and, when the head owns loss
\* weights, updates them.
OptimizerStep ==
    /\ pc = "returned"
    /\ \E w \in [1..2 -> (-MaxWeight)..MaxWeight] :
          head' = [head EXCEPT !.loss_weights =
                       IF head.loss_balancing THEN w ELSE <<>>]
    /\ pc' = "built"
    /\ batch' = NoBatch
    /\ ret' = NoRet
    /\ UNCHANGED args

\* The caller skips a batch for which loss() returned None.
SkipBatch ==
    /\ pc = "skipped"
    /\ pc' = "built"
    /\ batch' = NoBatch
    /\ ret' = NoRet
    /\ UNCHANGED <<args, head>>

NextTrain == LossCall \/ OptimizerStep \/ SkipBatch

SpecLoss == InitTrain /\ [][NextTrain]_vars

(***************************************************************************)
(* Properties of loss_single.                                              *)
(***************************************************************************)
\* The image of the loss_single call, its positive and negative anchors and
\* their weighted cross-entropy losses, read off the call's arguments.
Img == batch.images[1]

Positives == {j \in DOMAIN Img.labels : Img.labels[j] > 0}

Negatives == {j \in DOMAIN Img.labels : Img.labels[j] = 0}

Weighted(j) == Img.label_weights[j] * Img.ce[j]

RECURSIVE SumOver(_)
SumOver(S) ==
    IF S = {} THEN 0
    ELSE LET j == CHOOSE x \in S : TRUE
         IN Weighted(j) + SumOver(S \ {j})

SingleCallMade == batch.kind = "loss_single" /\ pc # "built"

\* C1: with P >= 1 positives, N >= 1 negatives and num_total_samples > 0 the
\* returned classification loss is (the weighted losses of all positives +
\* those of k negatives) / num_total_samples for k = min(neg_pos_ratio * P,
\* N), no uncounted negative having a larger loss than a counted one; the
\* call returns whenever neg_pos_ratio >= 1.
C1_HardNegativeLoss ==
    (/\ SingleCallMade
     /\ Cardinality(Positives) >= 1
     /\ Cardinality(Negatives) >= 1
     /\ batch.num_total_samples > 0) =>
        /\ batch.neg_pos_ratio >= 1 => pc = "returned"
        /\ pc = "returned" =>
              \E S \in SUBSET Negatives :
                  /\ Cardinality(S) <= Cardinality(Negatives)
                  /\ Cardinality(S)
                     <= batch.neg_pos_ratio * Cardinality(Positives)
                  /\ \/ Cardinality(S) = Cardinality(Negatives)
                     \/ Cardinality(S)
                        = batch.neg_pos_ratio * Cardinality(Positives)
                  /\ \A i \in S : \A j \in Negatives \ S :
                        Weighted(j) <= Weighted(i)
                  /\ ret.loss_cls[1].num = SumOver(Positives) + SumOver(S)
                  /\ ret.loss_cls[1].den = batch.num_total_samples
                  /\ ret.loss_cls[1].lg = 0

C1_Witness ==
    /\ pc = "returned"
    /\ batch.kind = "loss_single"
    /\ Cardinality(Positives) = 1
    /\ Cardinality(Negatives) = 2
    /\ batch.neg_pos_ratio = 1
    /\ \E i \in Negatives : \E j \in Negatives : Weighted(i) < Weighted(j)
    /\ \E i \in Positives : Img.label_weights[i] = 0

\* C6 as stated: with at least one positive and num_total_samples > 0,
\* whenever neg_pos_ratio * num_pos exceeds the negatives available, all of
\* them are selected and a loss is returned, never a failure.
C6_ClampNeverFails ==
    (/\ SingleCallMade
     /\ Cardinality(Positives) >= 1
     /\ batch.num_total_samples > 0
     /\ batch.neg_pos_ratio * Cardinality(Positives)
        > Cardinality(Negatives)) =>
        /\ pc = "returned"
        /\ ret.num_neg_samples = Cardinality(Negatives)
        /\ ret.selected = Negatives

\* C6 as amended: the same when at least one negative is available; with
\* none the clamp leaves num_neg_samples = 0 and the assertion of line 167
\* fails.
C6_ClampWithNegatives ==
    (/\ SingleCallMade
     /\ Cardinality(Positives) >= 1
     /\ batch.num_total_samples > 0
     /\ batch.neg_pos_ratio * Cardinality(Positives)
        > Cardinality(Negatives)) =>
        IF Cardinality(Negatives) >= 1
        THEN /\ pc = "returned"
             /\ ret.num_neg_samples = Cardinality(Negatives)
             /\ ret.selected = Negatives
        ELSE pc = "raised" /\ ret.error = "AssertionError"

C6_Witness ==
    /\ pc = "returned"
    /\ batch.kind = "loss_single"
    /\ Cardinality(Positives) = 2
    /\ Cardinality(Negatives) = 1
    /\ batch.neg_pos_ratio = 2
    /\ ret.selected = Negatives

(***************************************************************************)
(* Properties of loss.                                                     *)
(***************************************************************************)
LossCallMade == batch.kind = "loss" /\ pc # "built"

\* The classification and regression losses aggregated across the images of
\* the batch.
AggregatedCls == SumLosses([i \in 1..Len(batch.images) |->
                               PerImage(batch)[i].loss_cls])

AggregatedReg == SumLosses([i \in 1..Len(batch.images) |->
                               PerImage(batch)[i].loss_bbox])

\* C5: with loss_balancing both returned terms are the balancer's outputs:
\* loss_cls is exp(-w_cls) * L_cls + 0.5 * w_cls and loss_bbox is
\* exp(-w_reg) * L_reg + 0.5 * w_reg.
C5_BothTermsBalanced ==
    (LossCallMade /\ pc = "returned" /\ head.loss_balancing) =>
        /\ ret.loss_cls
           = <<BalanceTerm(AggregatedCls, head.loss_weights[1])>>
        /\ ret.loss_bbox
           = <<BalanceTerm(AggregatedReg, head.loss_weights[2])>>

NonFinite == ~batch.cls_finite \/ ~batch.bbox_finite

\* C7 as stated: a call of loss whose scores or offsets hold a non-finite
\* value ends in a failure and returns nothing, whatever the Assigner
\* returned.
C7_NonFiniteAlwaysFatal ==
    (LossCallMade /\ NonFinite) => pc = "raised"

\* C7 as amended: such a call ends in a failure whenever the Assigner
\* returned an assignment; when it returned None (and the feature maps match
\* the anchor generators) loss returns None before the guard is reached.
C7_NonFiniteFatalWithTargets ==
    (LossCallMade /\ NonFinite) =>
        IF batch.targets_none
           /\ batch.num_featmaps = Len(head.anchor_generators)
        THEN pc = "skipped" /\ ret.kind = "None"
        ELSE pc = "raised" /\ ret.error = "AssertionError"

C7_Witness ==
    /\ LossCallMade
    /\ pc = "raised"
    /\ batch.cls_finite
    /\ ~batch.bbox_finite
    /\ ~batch.targets_none
    /\ batch.num_featmaps = Len(head.anchor_generators)
    /\ batch.num_total_samples > 0
    /\ \A i \in DOMAIN batch.images : PerImage(batch)[i].error = ""

====
